---- MODULE Spec2Model ----
(***************************************************************************)
(* The Btrfs sysfs statistics reader of package btrfs (btrfs/get.go):      *)
(* FS.Stats, GetStats and the reader with its latched error.               *)
(*                                                                         *)
(* One action is one call the reader makes on the file system (readFile,   *)
(* readValue, listFiles, exists) or one step of FS.Stats.  The file system *)
(* is the environment: it answers each call when the call is made.  Its    *)
(* answers are the fixture tree's (every scalar file present and numeric,  *)
(* two devices, four features, one layout directory per allocation class), *)
(* except for at most limit places, recorded in dev.                       *)
(***************************************************************************)
EXTENDS Integers, Sequences, FiniteSets, TLC

VARIABLES
    btrfsDir,  \* the entry names of <sys>/fs/btrfs
    matches,   \* FS.Stats: the result of filepath.Glob
    vi,        \* FS.Stats: index of the range loop over matches
    stats,     \* FS.Stats: the slice built so far
    out,       \* FS.Stats: what it returned
    got,       \* what the last GetStats call returned
    pc,        \* position in the code
    r,         \* GetStats: the reader r
    sr,        \* readAllocationStats: the sub-reader sr
    devs,      \* readDeviceInfo: the names listFiles returned
    s,         \* readFilesystemStats: the fields of Stats evaluated so far
    a,         \* readAllocationStats: the fields of AllocationStats so far
    l,         \* readLayout: the LayoutUsage being filled
    i,         \* index of the device / scalar / counter being read
    cls,       \* index of the allocation class being read
    lay,       \* index of the readLayout call within the class
    p,         \* the layout name readLayout / calcRatio is called with
    dev,       \* the places where the tree differs from the fixture tree
    limit,     \* how many places may differ
    nAccess    \* number of file system calls made so far

vars == <<btrfsDir, matches, vi, stats, out, got, pc, r, sr, devs, s, a, l,
          i, cls, lay, p, dev, limit, nAccess>>

(***************************************************************************)
(* Bounds of the model.                                                    *)
(***************************************************************************)
MaxDev == 2      \* places differing from the fixture tree, one volume
MaxDevAll == 1   \* the same, over all volumes of a mount
MaxDevices == 3  \* entries of devices/
MaxCount == 5    \* device counts calcRatio is tried on

(***************************************************************************)
(* uint64: four 16-bit limbs, least significant first.                     *)
(***************************************************************************)
Base == 65536
Zero == <<0, 0, 0, 0>>
MaxUint64 == <<65535, 65535, 65535, 65535>>

\* u * m + c in 64 bits, with the carry out of bit 63 (m, c small).
MulAdd(u, m, c) ==
    LET t1 == u[1] * m + c
        t2 == u[2] * m + (t1 \div Base)
        t3 == u[3] * m + (t2 \div Base)
        t4 == u[4] * m + (t3 \div Base)
    IN  [v |-> <<t1 % Base, t2 % Base, t3 % Base, t4 % Base>>,
         carry |-> t4 \div Base]

\* The fixed sector size of readDeviceInfo.
SectorBytes == 512

\* A reader that takes sectors of 256 bytes.
DeviceSizeBug(v) == MulAdd(v, 256, 0).v

\* Size: 512 * r.readValue(...): a uint64 product, which wraps.
DeviceSize(v) == MulAdd(v, SectorBytes, 0).v

(***************************************************************************)
(* strings.TrimSpace and strconv.ParseUint(s, 10, 64) on a sequence of     *)
(* characters.                                                             *)
(***************************************************************************)
IsSpace(c) == c \in {" ", "\n", "\t", "\r"}

RECURSIVE TrimLeft(_)
TrimLeft(b) == IF b # <<>> /\ IsSpace(Head(b)) THEN TrimLeft(Tail(b)) ELSE b

RECURSIVE TrimRight(_)
TrimRight(b) ==
    IF b # <<>> /\ IsSpace(b[Len(b)])
    THEN TrimRight(SubSeq(b, 1, Len(b) - 1))
    ELSE b

TrimSpace(b) == TrimRight(TrimLeft(b))

DigitOf(c) ==
    CASE c = "0" -> 0 [] c = "1" -> 1 [] c = "2" -> 2 [] c = "3" -> 3
      [] c = "4" -> 4 [] c = "5" -> 5 [] c = "6" -> 6 [] c = "7" -> 7
      [] c = "8" -> 8 [] c = "9" -> 9 [] OTHER -> -1

RECURSIVE ParseDigits(_, _)
ParseDigits(str, n) ==
    IF str = <<>> THEN [v |-> n, err |-> "nil"]
    ELSE LET d == DigitOf(Head(str)) IN
         IF d < 0 THEN [v |-> Zero, err |-> "syntax"]
         ELSE LET m == MulAdd(n, 10, d) IN
              IF m.carry # 0 THEN [v |-> MaxUint64, err |-> "range"]
              ELSE ParseDigits(Tail(str), m.v)

ParseUint(str) ==
    IF str = <<>> THEN [v |-> Zero, err |-> "syntax"] ELSE ParseDigits(str, Zero)

(***************************************************************************)
(* float64 quotients of small integers: the exact fraction in lowest terms *)
(* (standing for the float64 nearest to it), or an infinity or NaN.  The   *)
(* sign of a zero is dropped.                                              *)
(***************************************************************************)
RECURSIVE GCD(_, _)
GCD(x, y) == IF y = 0 THEN x ELSE GCD(y, x % y)

Abs(x) == IF x < 0 THEN -x ELSE x

Float(x) == [cls |-> "fin", num |-> x, den |-> 1]

FDiv(x, y) ==
    IF y = 0
    THEN IF x > 0 THEN [cls |-> "+Inf", num |-> 1, den |-> 0]
         ELSE IF x < 0 THEN [cls |-> "-Inf", num |-> -1, den |-> 0]
         ELSE [cls |-> "NaN", num |-> 0, den |-> 0]
    ELSE LET g == GCD(Abs(x), Abs(y))
             sg == IF (x < 0) = (y < 0) THEN 1 ELSE -1
         IN  [cls |-> "fin", num |-> sg * (Abs(x) \div g), den |-> Abs(y) \div g]

(***************************************************************************)
(* Errors, paths, nil.                                                     *)
(***************************************************************************)
Nil == [kind |-> "nil", op |-> "", path |-> [vol |-> <<>>, rel |-> <<>>]]
Err(kind, op, path) == [kind |-> kind, op |-> op, path |-> path]

NilPtr == [nil |-> TRUE]

\* path.Join(base, n), n given by its components
Join(base, n) == [base EXCEPT !.rel = @ \o n]

\* filepath.Base(uuidPath)
PathBase(path) == path.vol

NoPath == [vol |-> <<>>, rel |-> <<>>]
NewReader(path, devCount) == [path |-> path, err |-> Nil, devCount |-> devCount]

(***************************************************************************)
(* The file system.                                                        *)
(***************************************************************************)
VolA == <<"0", "a", "-", "9", "d">>
VolB == <<"b", "-", "1">>
FeaturesEntry == <<"f", "e", "a", "t", "u", "r", "e", "s">>
\* the names a directory read of fs/btrfs can hold, in its (sorted) order
DirOrder == <<VolA, VolB, FeaturesEntry>>

DeviceNames == <<"sda", "sdb", "sdc", "sdd", "sde">>
FeatureNames == <<"big_metadata", "extended_iref", "mixed_backref", "skinny_metadata">>
OtherLayout == "raid1c3"

\* File contents, each with the number it denotes (num: whether it is a
\* base-10 unsigned integer below 2^64 once trimmed).
Sample(k) ==
    CASE k = "counter" ->
           [text |-> <<"1", "2", "3", "4", "5", "\n">>, num |-> TRUE,
            val |-> <<12345, 0, 0, 0>>]
      [] k = "sda" ->
           [text |-> <<"4", "1", "9", "4", "3", "0", "4", "\n">>, num |-> TRUE,
            val |-> <<0, 64, 0, 0>>]
      [] k = "sdb" ->
           [text |-> <<"2", "0", "9", "7", "1", "5", "2", "\n">>, num |-> TRUE,
            val |-> <<0, 32, 0, 0>>]
      [] k = "data" ->
           [text |-> <<"2", "1", "4", "7", "4", "8", "3", "6", "4", "8", "\n">>,
            num |-> TRUE, val |-> <<0, 32768, 0, 0>>]
      [] k = "metadata" ->
           [text |-> <<"1", "0", "7", "3", "7", "4", "1", "8", "2", "4", "\n">>,
            num |-> TRUE, val |-> <<0, 16384, 0, 0>>]
      [] k = "system" ->
           [text |-> <<"8", "3", "8", "8", "6", "0", "8", "\n">>, num |-> TRUE,
            val |-> <<0, 128, 0, 0>>]
      [] k = "big" ->    \* 2^55
           [text |-> <<"3", "6", "0", "2", "8", "7", "9", "7", "0", "1", "8",
                       "9", "6", "3", "9", "6", "8">>,
            num |-> TRUE, val |-> <<0, 0, 0, 128>>]
      [] k = "over" ->   \* 2^64
           [text |-> <<"1", "8", "4", "4", "6", "7", "4", "4", "0", "7", "3",
                       "7", "0", "9", "5", "5", "1", "6", "1", "6">>,
            num |-> FALSE, val |-> Zero]
      [] k = "garbage" ->
           [text |-> <<"n", "o", "t", "-", "a", "-", "n", "u", "m", "b", "e", "r">>,
            num |-> FALSE, val |-> Zero]
      [] k = "empty" ->
           [text |-> <<"\n">>, num |-> FALSE, val |-> Zero]
      [] k = "label" ->
           [text |-> <<"f", "i", "x", "t", "u", "r", "e", "\n">>, num |-> FALSE,
            val |-> Zero]

\* What the file system answers to one call.
Ok(k) == [kind |-> "ok", data |-> k, n |-> 0]
OkN(n) == [kind |-> "ok", data |-> "", n |-> n]
Fails(kind) == [kind |-> kind, data |-> "", n |-> 0]

\* The fixture tree.
FixtureLayout(class) == IF class = "data" THEN "raid0" ELSE "raid1"

FixtureFile(rel) ==
    IF rel = <<"label">> THEN "label"
    ELSE IF Len(rel) = 3 /\ rel[1] = "devices"
         THEN (IF rel[2] = "sda" THEN "sda" ELSE "sdb")
    ELSE IF Len(rel) = 3 /\ rel[3] = "total_bytes" THEN rel[2]
    ELSE "counter"

Fixture(op, rel) ==
    CASE op = "read" -> Ok(FixtureFile(rel))
      [] op = "list" -> IF rel = <<"devices">> THEN OkN(2) ELSE OkN(Len(FeatureNames))
      [] op = "stat" -> IF rel[3] = FixtureLayout(rel[2]) THEN OkN(0) ELSE Fails("ENOENT")

Other(op, rel) ==
    (CASE op = "read" ->
            IF rel = <<"label">>
            THEN {Fails("ENOENT"), Fails("EACCES"), Ok("empty")}
            ELSE {Fails("ENOENT"), Fails("EACCES"), Ok("garbage"), Ok("empty")}
                   \cup (IF rel[1] = "devices" THEN {Ok("big"), Ok("over")} ELSE {})
       [] op = "list" ->
            {Fails("ENOENT"), Fails("EACCES")}
              \cup (IF rel = <<"devices">>
                    THEN {OkN(n) : n \in 0 .. MaxDevices}
                    ELSE {OkN(0)})
       [] op = "stat" -> {OkN(0), Fails("ENOENT"), Fails("EACCES")})
    \ {Fixture(op, rel)}

\* The answers a call can get: the fixture's, or another while fewer than
\* limit places differ.
Answers(op, path) ==
    {Fixture(op, path.rel)}
      \cup (IF Cardinality(dev) < limit THEN Other(op, path.rel) ELSE {})

Noted(op, path, o) ==
    IF o = Fixture(op, path.rel) THEN dev
    ELSE dev \cup {[op |-> op, path |-> path, o |-> o]}

\* What the tree holds at a place.
Truth(op, path) ==
    IF \E d \in dev : d.op = op /\ d.path = path
    THEN (CHOOSE d \in dev : d.op = op /\ d.path = path).o
    ELSE Fixture(op, path.rel)

(***************************************************************************)
(* The reader.                                                             *)
(***************************************************************************)
\* reader.exists: a stat that reports "not exist" is an answer, any other
\* failure is latched.
Exists(rd, n, o) ==
    [ok |-> o.kind = "ok",
     err |-> IF o.kind \in {"ok", "ENOENT"} THEN rd.err
             ELSE Err(o.kind, "stat", Join(rd.path, n))]

\* reader.readFile: every failure of ioutil.ReadFile is latched.
ReadFile(rd, n, o) ==
    [str |-> IF o.kind = "ok" THEN TrimSpace(Sample(o.data).text) ELSE <<>>,
     err |-> IF o.kind # "ok" THEN Err(o.kind, "read", Join(rd.path, n))
             ELSE rd.err]

\* reader.readValue; io: the number of file system calls it made.
ReadValue(rd, n, o) ==
    IF rd.err # Nil THEN [v |-> Zero, err |-> rd.err, io |-> 0]
    ELSE LET f == ReadFile(rd, n, o) IN
         IF f.err # Nil THEN [v |-> Zero, err |-> f.err, io |-> 1]
         ELSE LET pr == ParseUint(f.str) IN
              [v |-> pr.v,
               err |-> IF pr.err = "nil" THEN Nil
                       ELSE Err(pr.err, "parse", Join(rd.path, n)),
               io |-> 1]

\* reader.listFiles; all: the directory's entry names in its order.
ListFiles(rd, n, all, o) ==
    [names |-> IF o.kind = "ok" THEN SubSeq(all, 1, o.n) ELSE <<>>,
     err |-> IF o.kind # "ok" THEN Err(o.kind, "list", Join(rd.path, n))
             ELSE rd.err]

\* A calcRatio with the parity counts of raid5 and raid6 exchanged.
CalcRatioBug(name, devCount) ==
    CASE name \in {"single", "raid0"} -> Float(1)
      [] name \in {"dup", "raid1", "raid10"} -> Float(2)
      [] name = "raid5" -> FDiv(devCount, devCount - 2)
      [] name = "raid6" -> FDiv(devCount, devCount - 1)
      [] OTHER -> Float(0)

\* reader.calcRatio
CalcRatio(name, devCount) ==
    CASE name \in {"single", "raid0"} -> Float(1)
      [] name \in {"dup", "raid1", "raid10"} -> Float(2)
      [] name = "raid5" -> FDiv(devCount, devCount - 1)
      [] name = "raid6" -> FDiv(devCount, devCount - 2)
      [] OTHER -> Float(0)

\* A readAllocationStats without the guard at its head.
AllocGuardBug(rd) == FALSE

\* readAllocationStats: if r.err != nil { return }
AllocGuard(rd) == rd.err # Nil

\* A sub-reader that does not inherit the device count.
SubReaderBug(rd, d) == NewReader(Join(rd.path, d), 0)

\* readAllocationStats: sr := &reader{path: path.Join(r.path, d), devCount: r.devCount}
SubReader(rd, d) == NewReader(Join(rd.path, d), rd.devCount)

\* readFilesystemStats: r.devCount = len(devices)
DevCountOf(devices) == Cardinality(DOMAIN devices)

\* info[n] = &Device{...}
MapPut(m, k, v) == [x \in DOMAIN m \cup {k} |-> IF x = k THEN v ELSE m[x]]

\* GetStats: return s, r.err
GetStatsResult(st, err) == [s |-> st, err |-> err]

\* The pattern *-*: the names holding a "-".
Match(name) == \E k \in 1 .. Len(name) : name[k] = "-"

\* A glob of the pattern *.
GlobBug(dir) == SelectSeq(DirOrder, LAMBDA e : e \in dir)

\* FS.Stats: filepath.Glob(".../fs/btrfs/*-*"): the matching names in
\* directory order.  The pattern is well formed: Glob returns no error.
Glob(dir) == SelectSeq(DirOrder, LAMBDA e : e \in dir /\ Match(e))

\* The call sequences of the composite literals.
TopValues ==
    <<[file |-> <<"clone_alignment">>, field |-> "CloneAlignment"],
      [file |-> <<"nodesize">>, field |-> "NodeSize"],
      [file |-> <<"sectorsize">>, field |-> "SectorSize"],
      [file |-> <<"allocation", "global_rsv_reserved">>, field |-> "GlobalRsvReserved"],
      [file |-> <<"allocation", "global_rsv_size">>, field |-> "GlobalRsvSize"]>>

Classes ==
    <<[dir |-> <<"allocation", "data">>, field |-> "Data"],
      [dir |-> <<"allocation", "metadata">>, field |-> "Metadata"],
      [dir |-> <<"allocation", "system">>, field |-> "System"]>>

Counters ==
    <<[file |-> "bytes_may_use", field |-> "MayUseBytes"],
      [file |-> "bytes_pinned", field |-> "PinnedBytes"],
      [file |-> "bytes_readonly", field |-> "ReadOnlyBytes"],
      [file |-> "bytes_reserved", field |-> "ReservedBytes"],
      [file |-> "bytes_used", field |-> "UsedBytes"],
      [file |-> "disk_used", field |-> "DiskUsedBytes"],
      [file |-> "disk_total", field |-> "DiskTotalBytes"],
      [file |-> "flags", field |-> "Flags"],
      [file |-> "total_bytes", field |-> "TotalBytes"],
      [file |-> "total_bytes_pinned", field |-> "TotalPinnedBytes"]>>

LayoutCalls ==
    <<[p |-> "single", field |-> "Single"],
      [p |-> "dup", field |-> "Dup"],
      [p |-> "raid0", field |-> "Raid0"],
      [p |-> "raid1", field |-> "Raid1"],
      [p |-> "raid5", field |-> "Raid5"],
      [p |-> "raid6", field |-> "Raid6"],
      [p |-> "raid10", field |-> "Raid10"]>>

\* Zero values of the result types.
ZeroLayout == [TotalBytes |-> Zero, UsedBytes |-> Zero, Ratio |-> Float(0)]

ZeroAlloc ==
    [MayUseBytes |-> Zero, PinnedBytes |-> Zero, ReadOnlyBytes |-> Zero,
     ReservedBytes |-> Zero, UsedBytes |-> Zero, DiskUsedBytes |-> Zero,
     DiskTotalBytes |-> Zero, Flags |-> Zero, TotalBytes |-> Zero,
     TotalPinnedBytes |-> Zero,
     Single |-> NilPtr, Dup |-> NilPtr, Raid0 |-> NilPtr, Raid1 |-> NilPtr,
     Raid5 |-> NilPtr, Raid6 |-> NilPtr, Raid10 |-> NilPtr]

ZeroStats ==
    [UUID |-> <<>>, Label |-> <<>>, Features |-> <<>>, CloneAlignment |-> Zero,
     NodeSize |-> Zero, SectorSize |-> Zero, Devices |-> <<>>,
     Allocation |-> [GlobalRsvReserved |-> Zero, GlobalRsvSize |-> Zero,
                     Data |-> NilPtr, Metadata |-> NilPtr, System |-> NilPtr]]

NoReader == NewReader(NoPath, 0)
NotReturned == [stats |-> <<>>, err |-> Nil]
NoResult == [s |-> NilPtr, err |-> Nil]

(***************************************************************************)
(* Initial states: FS.Stats is about to run on a sys mount.                *)
(***************************************************************************)
Start(dirs, lim) ==
    /\ btrfsDir \in dirs
    /\ limit = lim
    /\ matches = <<>>
    /\ vi = 0
    /\ stats = <<>>
    /\ out = NotReturned
    /\ got = NoResult
    /\ pc = "glob"
    /\ r = NoReader
    /\ sr = NoReader
    /\ devs = <<>>
    /\ s = ZeroStats
    /\ a = NilPtr
    /\ l = NilPtr
    /\ i = 0
    /\ cls = 0
    /\ lay = 0
    /\ p = ""
    /\ dev = {}
    /\ nAccess = 0

\* fs/btrfs holds one volume and the "features" entry.
Init == Start({{VolA, FeaturesEntry}}, MaxDev)

\* fs/btrfs holds any of two volumes and the "features" entry.
InitAll == Start(SUBSET {VolA, VolB, FeaturesEntry}, MaxDevAll)

(***************************************************************************)
(* FS.Stats                                                                *)
(***************************************************************************)
StatsGlob ==
    /\ pc = "glob"
    /\ matches' = Glob(btrfsDir)
    /\ stats' = <<>>
    /\ vi' = 1
    /\ pc' = "range"
    /\ UNCHANGED <<limit, btrfsDir, out, got, r, sr, devs, s, a, l, i, cls, lay, p,
                   dev, nAccess>>

\* s, err := GetStats(uuidPath): r := &reader{path: uuidPath}
CallGetStats ==
    /\ pc = "range"
    /\ vi <= Len(matches)
    /\ r' = NewReader([vol |-> matches[vi], rel |-> <<>>], 0)
    /\ s' = ZeroStats
    /\ got' = NoResult
    /\ pc' = "devices"
    /\ UNCHANGED <<limit, btrfsDir, matches, vi, stats, out, sr, devs, a, l, i, cls,
                   lay, p, dev, nAccess>>

\* return stats, nil
StatsReturn ==
    /\ pc = "range"
    /\ vi > Len(matches)
    /\ out' = [stats |-> stats, err |-> Nil]
    /\ pc' = "done"
    /\ UNCHANGED <<limit, btrfsDir, matches, vi, stats, got, r, sr, devs, s, a, l, i,
                   cls, lay, p, dev, nAccess>>

\* if err != nil { return nil, err }
StatsFail ==
    /\ pc = "check"
    /\ got.err # Nil
    /\ out' = [stats |-> <<>>, err |-> got.err]
    /\ pc' = "done"
    /\ UNCHANGED <<limit, btrfsDir, matches, vi, stats, got, r, sr, devs, s, a, l, i,
                   cls, lay, p, dev, nAccess>>

\* s.UUID = uuid; stats = append(stats, s)
StatsAppend ==
    /\ pc = "check"
    /\ got.err = Nil
    /\ stats' = Append(stats, [got.s EXCEPT !.UUID = PathBase(r.path)])
    /\ vi' = vi + 1
    /\ pc' = "range"
    /\ UNCHANGED <<limit, btrfsDir, matches, out, got, r, sr, devs, s, a, l, i, cls,
                   lay, p, dev, nAccess>>

\* return s, r.err
GetStatsReturn ==
    /\ pc = "return"
    /\ got' = GetStatsResult(s, r.err)
    /\ pc' = "check"
    /\ UNCHANGED <<limit, btrfsDir, matches, vi, stats, out, r, sr, devs, s, a, l, i,
                   cls, lay, p, dev, nAccess>>

(***************************************************************************)
(* readFilesystemStats                                                     *)
(***************************************************************************)
\* readDeviceInfo: devs := r.listFiles("devices"); info := make(map...)
ListDevices ==
    /\ pc = "devices"
    /\ LET path == Join(r.path, <<"devices">>) IN
       IF r.err # Nil
       THEN /\ devs' = <<>>
            /\ UNCHANGED <<r, dev, nAccess>>
       ELSE \E o \in Answers("list", path) :
              LET ls == ListFiles(r, <<"devices">>, DeviceNames, o) IN
              /\ devs' = ls.names
              /\ r' = [r EXCEPT !.err = ls.err]
              /\ dev' = Noted("list", path, o)
              /\ nAccess' = nAccess + 1
    /\ s' = [s EXCEPT !.Devices = <<>>]
    /\ i' = 1
    /\ pc' = "size"
    /\ UNCHANGED <<limit, btrfsDir, matches, vi, stats, out, got, sr, a, l, cls, lay, p>>

\* info[n] = &Device{Size: 512 * r.readValue("devices/"+n+"/size")}
ReadDeviceSize ==
    /\ pc = "size"
    /\ i <= Len(devs)
    /\ LET n == <<"devices", devs[i], "size">>
           path == Join(r.path, n)
       IN  \E o \in (IF r.err = Nil THEN Answers("read", path)
                     ELSE {Fixture("read", path.rel)}) :
             LET rv == ReadValue(r, n, o) IN
             /\ s' = [s EXCEPT !.Devices =
                        MapPut(@, devs[i], [Size |-> DeviceSize(rv.v)])]
             /\ r' = [r EXCEPT !.err = rv.err]
             /\ dev' = Noted("read", path, o)
             /\ nAccess' = nAccess + rv.io
    /\ i' = i + 1
    /\ UNCHANGED <<limit, btrfsDir, matches, vi, stats, out, got, pc, sr, devs, a, l,
                   cls, lay, p>>

\* r.devCount = len(devices)
SetDevCount ==
    /\ pc = "size"
    /\ i > Len(devs)
    /\ r' = [r EXCEPT !.devCount = DevCountOf(s.Devices)]
    /\ pc' = "label"
    /\ UNCHANGED <<limit, btrfsDir, matches, vi, stats, out, got, sr, devs, s, a, l, i,
                   cls, lay, p, dev, nAccess>>

\* Label: r.readFile("label")
ReadLabel ==
    /\ pc = "label"
    /\ LET path == Join(r.path, <<"label">>) IN
       \E o \in Answers("read", path) :
         LET f == ReadFile(r, <<"label">>, o) IN
         /\ s' = [s EXCEPT !.Label = f.str]
         /\ r' = [r EXCEPT !.err = f.err]
         /\ dev' = Noted("read", path, o)
    /\ nAccess' = nAccess + 1
    /\ pc' = "features"
    /\ UNCHANGED <<limit, btrfsDir, matches, vi, stats, out, got, sr, devs, a, l, i,
                   cls, lay, p>>

\* Features: r.listFiles("features")
ListFeatures ==
    /\ pc = "features"
    /\ LET path == Join(r.path, <<"features">>) IN
       \E o \in Answers("list", path) :
         LET ls == ListFiles(r, <<"features">>, FeatureNames, o) IN
         /\ s' = [s EXCEPT !.Features = ls.names]
         /\ r' = [r EXCEPT !.err = ls.err]
         /\ dev' = Noted("list", path, o)
    /\ nAccess' = nAccess + 1
    /\ i' = 1
    /\ pc' = "top"
    /\ UNCHANGED <<limit, btrfsDir, matches, vi, stats, out, got, sr, devs, a, l, cls,
                   lay, p>>

\* CloneAlignment, NodeSize, SectorSize, Allocation.GlobalRsvReserved,
\* Allocation.GlobalRsvSize: r.readValue(...)
ReadTopValue ==
    /\ pc = "top"
    /\ LET n == TopValues[i].file
           fld == TopValues[i].field
           path == Join(r.path, n)
       IN  \E o \in (IF r.err = Nil THEN Answers("read", path)
                     ELSE {Fixture("read", path.rel)}) :
             LET rv == ReadValue(r, n, o) IN
             /\ s' = IF Len(n) = 1 THEN [s EXCEPT ![fld] = rv.v]
                     ELSE [s EXCEPT !.Allocation[fld] = rv.v]
             /\ r' = [r EXCEPT !.err = rv.err]
             /\ dev' = Noted("read", path, o)
             /\ nAccess' = nAccess + rv.io
    /\ IF i = Len(TopValues)
       THEN pc' = "alloc" /\ cls' = 1 /\ i' = 0
       ELSE pc' = pc /\ cls' = cls /\ i' = i + 1
    /\ UNCHANGED <<limit, btrfsDir, matches, vi, stats, out, got, sr, devs, a, l, lay, p>>

(***************************************************************************)
(* readAllocationStats                                                     *)
(***************************************************************************)
\* if r.err != nil { return }: the class is nil
AllocSkip ==
    /\ pc = "alloc"
    /\ AllocGuard(r)
    /\ s' = [s EXCEPT !.Allocation[Classes[cls].field] = NilPtr]
    /\ IF cls = Len(Classes)
       THEN pc' = "return" /\ cls' = 0
       ELSE pc' = pc /\ cls' = cls + 1
    /\ UNCHANGED <<limit, btrfsDir, matches, vi, stats, out, got, r, sr, devs, a, l, i,
                   lay, p, dev, nAccess>>

\* sr := &reader{path: path.Join(r.path, d), devCount: r.devCount}
\* The class directory may also hold a subdirectory of a name the reader
\* does not know (OtherLayout); nothing reads it.
AllocEnter ==
    /\ pc = "alloc"
    /\ ~AllocGuard(r)
    /\ sr' = SubReader(r, Classes[cls].dir)
    /\ a' = ZeroAlloc
    /\ \E o \in Answers("stat", Join(sr'.path, <<OtherLayout>>)) \ {Fails("EACCES")} :
         dev' = Noted("stat", Join(sr'.path, <<OtherLayout>>), o)
    /\ i' = 1
    /\ pc' = "counter"
    /\ UNCHANGED <<limit, btrfsDir, matches, vi, stats, out, got, r, devs, s, l, cls,
                   lay, p, nAccess>>

\* MayUseBytes ... TotalPinnedBytes: sr.readValue(...)
ReadCounter ==
    /\ pc = "counter"
    /\ LET n == <<Counters[i].file>>
           path == Join(sr.path, n)
       IN  \E o \in (IF sr.err = Nil THEN Answers("read", path)
                     ELSE {Fixture("read", path.rel)}) :
             LET rv == ReadValue(sr, n, o) IN
             /\ a' = [a EXCEPT ![Counters[i].field] = rv.v]
             /\ sr' = [sr EXCEPT !.err = rv.err]
             /\ dev' = Noted("read", path, o)
             /\ nAccess' = nAccess + rv.io
    /\ IF i = Len(Counters)
       THEN pc' = "layout" /\ lay' = 1 /\ p' = LayoutCalls[1].p /\ i' = 0
       ELSE pc' = pc /\ lay' = lay /\ p' = p /\ i' = i + 1
    /\ UNCHANGED <<limit, btrfsDir, matches, vi, stats, out, got, r, devs, s, l, cls>>

\* After sr.readLayout(p) returned: the next readLayout call, or the end of
\* the composite literal.
NextLayout ==
    IF lay = Len(LayoutCalls)
    THEN pc' = "allocExit" /\ lay' = 0 /\ p' = ""
    ELSE pc' = "layout" /\ lay' = lay + 1 /\ p' = LayoutCalls[lay + 1].p

\* readLayout: if !r.exists(p) { return }; l = new(LayoutUsage)
LayoutExists ==
    /\ pc = "layout"
    /\ LET path == Join(sr.path, <<p>>) IN
       \E o \in Answers("stat", path) :
         LET e == Exists(sr, <<p>>, o) IN
         /\ sr' = [sr EXCEPT !.err = e.err]
         /\ dev' = Noted("stat", path, o)
         /\ IF e.ok
            THEN /\ l' = ZeroLayout
                 /\ pc' = "layoutTotal"
                 /\ UNCHANGED <<a, lay, p>>
            ELSE /\ a' = [a EXCEPT ![LayoutCalls[lay].field] = NilPtr]
                 /\ l' = NilPtr
                 /\ NextLayout
    /\ nAccess' = nAccess + 1
    /\ UNCHANGED <<limit, btrfsDir, matches, vi, stats, out, got, r, devs, s, i, cls>>

\* l.TotalBytes = r.readValue(path.Join(p, "total_bytes"))
LayoutTotal ==
    /\ pc = "layoutTotal"
    /\ LET n == <<p, "total_bytes">>
           path == Join(sr.path, n)
       IN  \E o \in (IF sr.err = Nil THEN Answers("read", path)
                     ELSE {Fixture("read", path.rel)}) :
             LET rv == ReadValue(sr, n, o) IN
             /\ l' = [l EXCEPT !.TotalBytes = rv.v]
             /\ sr' = [sr EXCEPT !.err = rv.err]
             /\ dev' = Noted("read", path, o)
             /\ nAccess' = nAccess + rv.io
    /\ pc' = "layoutUsed"
    /\ UNCHANGED <<limit, btrfsDir, matches, vi, stats, out, got, r, devs, s, a, i, cls,
                   lay, p>>

\* l.UsedBytes = r.readValue(path.Join(p, "used_bytes"))
LayoutUsed ==
    /\ pc = "layoutUsed"
    /\ LET n == <<p, "used_bytes">>
           path == Join(sr.path, n)
       IN  \E o \in (IF sr.err = Nil THEN Answers("read", path)
                     ELSE {Fixture("read", path.rel)}) :
             LET rv == ReadValue(sr, n, o) IN
             /\ l' = [l EXCEPT !.UsedBytes = rv.v]
             /\ sr' = [sr EXCEPT !.err = rv.err]
             /\ dev' = Noted("read", path, o)
             /\ nAccess' = nAccess + rv.io
    /\ pc' = "layoutRatio"
    /\ UNCHANGED <<limit, btrfsDir, matches, vi, stats, out, got, r, devs, s, a, i, cls,
                   lay, p>>

\* l.Ratio = r.calcRatio(p); return
LayoutRatio ==
    /\ pc = "layoutRatio"
    /\ a' = [a EXCEPT ![LayoutCalls[lay].field] =
               [l EXCEPT !.Ratio = CalcRatio(p, sr.devCount)]]
    /\ l' = NilPtr
    /\ NextLayout
    /\ UNCHANGED <<limit, btrfsDir, matches, vi, stats, out, got, r, sr, devs, s, i,
                   cls, dev, nAccess>>

\* r.err = sr.err; return
AllocExit ==
    /\ pc = "allocExit"
    /\ r' = [r EXCEPT !.err = sr.err]
    /\ s' = [s EXCEPT !.Allocation[Classes[cls].field] = a]
    /\ sr' = NoReader
    /\ a' = NilPtr
    /\ IF cls = Len(Classes)
       THEN pc' = "return" /\ cls' = 0
       ELSE pc' = "alloc" /\ cls' = cls + 1
    /\ UNCHANGED <<limit, btrfsDir, matches, vi, stats, out, got, devs, l, i, lay, p,
                   dev, nAccess>>

Next ==
    \/ StatsGlob
    \/ CallGetStats
    \/ ListDevices
    \/ ReadDeviceSize
    \/ SetDevCount
    \/ ReadLabel
    \/ ListFeatures
    \/ ReadTopValue
    \/ AllocSkip
    \/ AllocEnter
    \/ ReadCounter
    \/ LayoutExists
    \/ LayoutTotal
    \/ LayoutUsed
    \/ LayoutRatio
    \/ AllocExit
    \/ GetStatsReturn
    \/ StatsFail
    \/ StatsAppend
    \/ StatsReturn

Spec == Init /\ [][Next]_vars

SpecAll == InitAll /\ [][Next]_vars

(***************************************************************************)
(* calcRatio alone, on every layout name and device count of a range.      *)
(***************************************************************************)
RatioNames ==
    {LayoutCalls[k].p : k \in 1 .. Len(LayoutCalls)}
      \cup {OtherLayout, "raid1c4", "raid56", ""}

InitRatio ==
    /\ btrfsDir = {}
    /\ matches = <<>>
    /\ vi = 0
    /\ stats = <<>>
    /\ out = NotReturned
    /\ got = NoResult
    /\ pc = "calc"
    /\ \E n \in 0 .. MaxCount : r = NewReader(NoPath, n)
    /\ sr = NoReader
    /\ devs = <<>>
    /\ s = ZeroStats
    /\ a = NilPtr
    /\ l = ZeroLayout
    /\ i = 0
    /\ cls = 0
    /\ lay = 0
    /\ p \in RatioNames
    /\ dev = {}
    /\ limit = 0
    /\ nAccess = 0

CalcRatioCall ==
    /\ pc = "calc"
    /\ l' = [l EXCEPT !.Ratio = CalcRatio(p, r.devCount)]
    /\ pc' = "calcDone"
    /\ UNCHANGED <<limit, btrfsDir, matches, vi, stats, out, got, r, sr, devs, s, a, i,
                   cls, lay, p, dev, nAccess>>

NextRatio == CalcRatioCall

SpecRatio == InitRatio /\ [][NextRatio]_vars

(***************************************************************************)
(* Vocabulary of the properties.                                           *)
(***************************************************************************)
\* GetStats has returned to FS.Stats.
Returned == pc = "check"

InClass ==
    pc \in {"counter", "layout", "layoutTotal", "layoutUsed", "layoutRatio",
            "allocExit"}

InGetStats ==
    InClass \/ pc \in {"devices", "size", "label", "features", "top", "alloc", "return"}

\* The error latched on the reader in use.
Latch == IF InClass /\ sr.err # Nil THEN sr.err ELSE r.err

\* A call of the run that failed: a read or a listing that returned an
\* error, a stat that returned an error other than "not exist", or a
\* numeric file whose content does not parse.
Failed(d) ==
    \/ d.o.kind = "EACCES"
    \/ d.op \in {"read", "list"} /\ d.o.kind = "ENOENT"
    \/ /\ d.op = "read"
       /\ d.o.kind = "ok"
       /\ d.path.rel # <<"label">>
       /\ ~Sample(d.o.data).num

ClassField(k) == Classes[k].field

\* The allocation class an error comes from, 0 when from none.
ClassOfErr(e) ==
    IF \E k \in 1 .. Len(Classes) :
         Len(e.path.rel) > 2 /\ SubSeq(e.path.rel, 1, 2) = Classes[k].dir
    THEN CHOOSE k \in 1 .. Len(Classes) : SubSeq(e.path.rel, 1, 2) = Classes[k].dir
    ELSE 0

\* The layout names an AllocationStats holds a LayoutUsage for.
Usages(al) ==
    {LayoutCalls[k].p : k \in {j \in 1 .. Len(LayoutCalls) :
                                 al[LayoutCalls[j].field] # NilPtr}}

\* The subdirectories a class directory holds.
Subdirs(path) ==
    {n \in {LayoutCalls[k].p : k \in 1 .. Len(LayoutCalls)} \cup {OtherLayout} :
       Truth("stat", Join(path, <<n>>)).kind = "ok"}

\* The number a scalar file of the tree denotes.
NumberIn(path) == Sample(Truth("read", path).data).val

\* 512 * u as a natural number: five limbs.
Twice(x) ==
    LET t1 == 2 * x[1]
        t2 == 2 * x[2] + (t1 \div Base)
        t3 == 2 * x[3] + (t2 \div Base)
        t4 == 2 * x[4] + (t3 \div Base)
        t5 == 2 * x[5] + (t4 \div Base)
    IN  <<t1 % Base, t2 % Base, t3 % Base, t4 % Base, t5 % Base>>

Times512(u) ==
    Twice(Twice(Twice(Twice(Twice(Twice(Twice(Twice(Twice(u \o <<0>>)))))))))

DevicesOf(root) ==
    {DeviceNames[k] : k \in 1 .. Truth("list", Join(root, <<"devices">>)).n}

(***************************************************************************)
(* C1.  If the only departures of the tree from the fixture are absent     *)
(* scalar files, GetStats returns no error (and an absent label reads as   *)
(* the empty string).  The code latches ENOENT in readFile: violated.      *)
(***************************************************************************)
C1_AbsentFileIsNoError ==
    (Returned /\ \A d \in dev : d.op = "read" /\ d.o.kind = "ENOENT")
      => /\ got.err = Nil
         /\ Truth("read", Join(r.path, <<"label">>)).kind = "ENOENT"
              => got.s.Label = <<>>

(***************************************************************************)
(* C2.  If the only departures of the tree from the fixture are numeric    *)
(* files with empty or non-numeric content, GetStats returns a nil error   *)
(* (and so reads all the remaining counters).  The code latches the parse  *)
(* error in readValue: violated.                                           *)
(***************************************************************************)
C2_MalformedNumberIsNoError ==
    (Returned /\ \A d \in dev : /\ d.op = "read"
                                /\ d.path.rel # <<"label">>
                                /\ d.o \in {Ok("garbage"), Ok("empty")})
      => /\ got.err = Nil
         /\ \A k \in 1 .. Len(Classes) : got.s.Allocation[ClassField(k)] # NilPtr

(***************************************************************************)
(* C3.  When GetStats returns an error, the Stats it returns is nil.  The  *)
(* code returns the partially filled Stats beside the error: violated.     *)
(***************************************************************************)
C3_ErrorMeansNilStats ==
    (Returned /\ got.err # Nil) => got.s = NilPtr

(***************************************************************************)
(* C4.  Once an error is latched on the reader, no later step of the       *)
(* volume's read calls the file system, and the latched error is never     *)
(* replaced.  readFile, listFiles and exists do not look at the latch:     *)
(* violated.                                                               *)
(***************************************************************************)
C4_LatchShortCircuits ==
    [][(InGetStats /\ Latch # Nil) => (nAccess' = nAccess /\ Latch' = Latch)]_vars

(***************************************************************************)
(* C5.  While an allocation class is read the device enumeration is over,  *)
(* and the device count of the sub-reader (the one calcRatio uses) is the  *)
(* number of entries of the Devices map; the raid5 and raid6 ratios of the *)
(* returned Stats are those of the returned Devices map's size.            *)
(***************************************************************************)
C5_DevCountIsDevices ==
    /\ InClass =>
         /\ DOMAIN s.Devices = {devs[k] : k \in 1 .. Len(devs)}
         /\ sr.devCount = Cardinality(DOMAIN s.Devices)
    /\ Returned =>
         \A k \in 1 .. Len(Classes) :
           LET al == got.s.Allocation[ClassField(k)]
               n == Cardinality(DOMAIN got.s.Devices)
           IN  al # NilPtr =>
                 /\ al.Raid5 # NilPtr => al.Raid5.Ratio = FDiv(n, n - 1)
                 /\ al.Raid6 # NilPtr => al.Raid6.Ratio = FDiv(n, n - 2)

C5_Witness ==
    /\ Returned
    /\ got.err = Nil
    /\ Cardinality(DOMAIN got.s.Devices) = 3
    /\ got.s.Allocation.Data.Raid5 # NilPtr
    /\ got.s.Allocation.Data.Raid5.Ratio = [cls |-> "fin", num |-> 3, den |-> 2]

(***************************************************************************)
(* C6.  calcRatio on layout name p and device count N: 1 for single and    *)
(* raid0; 2 for dup, raid1 and raid10; the float64 quotient N/(N-1) for    *)
(* raid5 (3/2 at N = 3, +Inf at N = 1) and N/(N-2) for raid6 (2 at N = 4,  *)
(* +Inf at N = 2); 0 for any other name; no error is latched.              *)
(***************************************************************************)
C6_RatioTable ==
    pc = "calcDone" =>
      LET N == r.devCount
          q == l.Ratio
          Quotient(d) == IF d = 0 THEN q.cls = "+Inf"
                         ELSE q.cls = "fin" /\ q.den > 0 /\ q.num * d = N * q.den
      IN  /\ r.err = Nil
          /\ p \in {"single", "raid0"} => q = Float(1)
          /\ p \in {"dup", "raid1", "raid10"} => q = Float(2)
          /\ p = "raid5" => Quotient(N - 1)
          /\ (p = "raid5" /\ N = 3) => q = [cls |-> "fin", num |-> 3, den |-> 2]
          /\ p = "raid6" => Quotient(N - 2)
          /\ (p = "raid6" /\ N = 4) => q = Float(2)
          /\ p \notin {"single", "raid0", "dup", "raid1", "raid10", "raid5", "raid6"}
               => q = Float(0)

C6_Witness == pc = "calcDone" /\ p = "raid6" /\ r.devCount = 4 /\ l.Ratio = Float(2)

(***************************************************************************)
(* C7.  For a class read without error, the layout names that have a       *)
(* LayoutUsage are exactly the subdirectories of the class directory,      *)
(* whatever their names.  The code probes seven fixed names only:          *)
(* violated by a subdirectory of another name.                             *)
(***************************************************************************)
C7_UsagesAreSubdirs ==
    (pc = "allocExit" /\ sr.err = Nil) => Usages(a) = Subdirs(sr.path)

(***************************************************************************)
(* C8.  As stated: after a successful read the Devices map has one entry   *)
(* per entry of devices/, and each Size is the sector count of the size    *)
(* file times 512, as a natural number.  Violated at 2^55 sectors.         *)
(***************************************************************************)
C8_SizeIsSectorsTimes512 ==
    (Returned /\ got.err = Nil) =>
      /\ DOMAIN got.s.Devices = DevicesOf(r.path)
      /\ \A n \in DevicesOf(r.path) :
           got.s.Devices[n].Size \o <<0>>
             = Times512(NumberIn(Join(r.path, <<"devices", n, "size">>)))

(***************************************************************************)
(* C8, amended.  ... each Size is the sector count times 512 modulo 2^64   *)
(* (so the product itself for every sector count below 2^55).              *)
(***************************************************************************)
C8_SizeIsSectorsTimes512Mod ==
    (Returned /\ got.err = Nil) =>
      /\ DOMAIN got.s.Devices = DevicesOf(r.path)
      /\ \A n \in DevicesOf(r.path) :
           LET sectors == NumberIn(Join(r.path, <<"devices", n, "size">>)) IN
           /\ got.s.Devices[n].Size = SubSeq(Times512(sectors), 1, 4)
           /\ sectors[4] < 128 => got.s.Devices[n].Size \o <<0>> = Times512(sectors)

\* sda holds 4194304 sectors (2147483648 bytes), sdb 2^55 (wraps to 0)
C8_Witness ==
    /\ Returned
    /\ got.err = Nil
    /\ DOMAIN got.s.Devices = {"sda", "sdb"}
    /\ Truth("read", Join(r.path, <<"devices", "sdb", "size">>)) = Ok("big")
    /\ got.s.Devices["sda"].Size = <<0, 32768, 0, 0>>
    /\ got.s.Devices["sdb"].Size = Zero

(***************************************************************************)
(* C9.  When FS.Stats returns no error, it returns one Stats per entry of  *)
(* fs/btrfs whose name holds a "-", in directory order, each with the      *)
(* entry's name as UUID, as many Devices and Features as devices/ and      *)
(* features/ hold entries, and the Data, Metadata and System TotalBytes of *)
(* the class's total_bytes file.                                           *)
(***************************************************************************)
C9_StatsPerVolume ==
    (pc = "done" /\ out.err = Nil) =>
      LET vols == {e \in btrfsDir : \E k \in DOMAIN e : e[k] = "-"}
          Pos(e) == CHOOSE k \in 1 .. Len(DirOrder) : DirOrder[k] = e
          n == Len(out.stats)
      IN  /\ n = Cardinality(vols)
          /\ {out.stats[k].UUID : k \in 1 .. n} = vols
          /\ \A j, k \in 1 .. n : j < k => Pos(out.stats[j].UUID) < Pos(out.stats[k].UUID)
          /\ \A k \in 1 .. n :
               LET st == out.stats[k]
                   root == [vol |-> st.UUID, rel |-> <<>>]
               IN  /\ Cardinality(DOMAIN st.Devices)
                        = Truth("list", Join(root, <<"devices">>)).n
                   /\ Len(st.Features) = Truth("list", Join(root, <<"features">>)).n
                   /\ \A c \in 1 .. Len(Classes) :
                        st.Allocation[ClassField(c)].TotalBytes
                          = NumberIn(Join(root, Classes[c].dir \o <<"total_bytes">>))

C9_Witness ==
    /\ pc = "done"
    /\ out.err = Nil
    /\ Len(out.stats) = 2
    /\ out.stats[1].UUID = VolA
    /\ Cardinality(DOMAIN out.stats[2].Devices) = 3
    /\ Len(out.stats[1].Features) = 4
    /\ out.stats[1].Allocation.Data.TotalBytes = <<0, 32768, 0, 0>>
    /\ out.stats[1].Allocation.Metadata.TotalBytes = <<0, 16384, 0, 0>>
    /\ out.stats[1].Allocation.System.TotalBytes = <<0, 128, 0, 0>>

(***************************************************************************)
(* C10.  The latched error is never reset to nil; GetStats returns an      *)
(* error exactly when some call of the run failed (a read, a listing, a    *)
(* stat with an error other than "not exist", a numeric parse); and every  *)
(* allocation class read after the failure is nil.                         *)
(***************************************************************************)
C10_Returned ==
    Returned =>
      /\ got.err # Nil <=> \E d \in dev : Failed(d)
      /\ got.err # Nil =>
           \A k \in 1 .. Len(Classes) :
             (ClassOfErr(got.err) = 0 \/ k > ClassOfErr(got.err))
               => got.s.Allocation[ClassField(k)] = NilPtr

C10_ErrorMonotonic ==
    /\ []C10_Returned
    /\ [][Latch # Nil => Latch' # Nil]_vars

\* a counter of the data class failed: Data is partial, the rest nil
C10_Witness ==
    /\ Returned
    /\ got.err # Nil
    /\ ClassOfErr(got.err) = 1
    /\ got.s.Allocation.Data # NilPtr
    /\ got.s.Allocation.Metadata = NilPtr
    /\ got.s.Allocation.System = NilPtr

====
